---- MODULE Spec2Model ----
(***************************************************************************)
(* Call-flow core of the telephone IVR bot (yt-dlp + Gemini).              *)
(*                                                                         *)
(* The repository holds several iterations of the same server.  The model *)
(* covers four of them, selected by the variable `variant`:               *)
(*   "A"  : src/server.js, lines 1-259    (routes /main-gather,           *)
(*          /music-logic, /music-wait-loop; searchAndDownload, askGemini) *)
(*   "B"  : src/server.js, lines 261-587  (routes /gather, /music-logic,  *)
(*          /music-wait; startDownload, getGeminiResponse)                *)
(*   "P0" : src/unnamed/part_000          (/main-gather, /music-logic,    *)
(*          /music-wait-loop)                                             *)
(*   "P1" : src/unnamed/part_001          (/main-gather, /music-process,  *)
(*          /music-check-status)                                          *)
(* Each route handler is one action.  A handler that awaits the AI        *)
(* backend is split at its await: the part before, and one step per       *)
(* outcome of the awaited call.  The telephony layer delivers the next    *)
(* event of a call to a route named by the last document it received      *)
(* (the gather action with any input, or the redirect target), and may    *)
(* start a call (/twiml) at any time.                                     *)
(* The wording of the spoken messages differs between the iterations; the *)
(* model uses the wording of iteration A (and of B where A has none).     *)
(***************************************************************************)
EXTENDS Integers, Sequences, FiniteSets, TLC

VARIABLES
    variant,        \* which iteration of the server is running
    numKeys,        \* GEMINI_KEYS.length, read once at startup
    calls,          \* call identifiers the telephony layer is using
    now,            \* Date.now(), in ms since startup
    sessions,       \* const sessions = new Map()
    downloadQueue,  \* const downloadQueue = new Map()
    children,       \* spawned yt-dlp processes that have not closed yet
    nextId,         \* source of uuidv4() values
    aiReqs,         \* chat.sendMessage calls awaiting the AI backend
    resp            \* last response document sent for each call

vars == <<variant, numKeys, calls, now, sessions, downloadQueue, children, nextId, aiReqs, resp>>

----------------------------------------------------------------------------
(* Bounds of the model *)

MaxJobs == 2
MaxHistory == 2
MaxChat == 2
MaxAiReqs == 1
MaxKeys == 1
MaxChatKeys == 2
MaxChatAiReqs == 2
MaxTranscript == 4
MaxNow == 90000
TickMs == 30000

(* Program constants *)

WaitBudget == 60000

Variants == {"A", "B", "P0", "P1"}
CallSids == {"CA1", "CA2"}
Allowed == "+972548498889"
Stranger == "+15550000000"
VERIFIED_CALLERS == {Allowed}
Callers == {Allowed, Stranger}

None == "undefined"
DigitInputs == {None, "0", "#", "4", "5", "6", "1"}
SpeechInputs == {None, "jazz"}
Replies == {"hi"}
(* What DOWNLOAD_DIR holds under a job's id when its process exits: no file, *)
(* a file of a few bytes, or a full audio file                               *)
Files == {"absent", "small", "large"}
ExitCodes == {0, 1}

WELCOME == "Hello! Speak to Gemini, or press Hash for music."
MUSIC_WELCOME == "Music Mode. Name a song."
SEARCHING == "Searching SoundCloud..."
NO_HISTORY == "No history yet."
DOWNLOAD_FAILED == "Download failed."
NOT_CAUGHT == "I didn't catch that."
NO_KEYS == "No API Keys."
BRAIN_OFFLINE == "Brain offline."
PLAYING == "Playing"
TOOK_TOO_LONG == "Took too long."
ERROR_SAY == "Error."

----------------------------------------------------------------------------
(* Values *)

NoSession == [absent |-> TRUE]
NewSession == [chatHistory |-> <<>>, musicHistory |-> <<>>, index |-> -1]

NoJob == [absent |-> TRUE]
NoUrl == <<>>
MusicUrl(id) == <<"music", id>>

(* A response document: the verbs the handler put into the VoiceResponse. *)
NoDoc == [absent |-> TRUE]
Doc(rj, sy, ti, pl, ga, rd, pa) ==
    [reject |-> rj, say |-> sy, title |-> ti, play |-> pl,
     gather |-> ga, redirect |-> rd, pause |-> pa]
RejectDoc == Doc(TRUE, "", "", NoUrl, "", "", 0)
SayGather(text, route) == Doc(FALSE, text, "", NoUrl, route, "", 0)
GatherOnly(route) == Doc(FALSE, "", "", NoUrl, route, "", 0)
RedirectOnly(route) == Doc(FALSE, "", "", NoUrl, "", route, 0)
SayRedirect(text, route) == Doc(FALSE, text, "", NoUrl, "", route, 0)
PauseRedirect(len, route) == Doc(FALSE, "", "", NoUrl, "", route, len)
PlayDoc(title, url, route) == Doc(FALSE, PLAYING, title, url, route, "/music-mode", 0)
CrashDoc == [crash |-> TRUE]
(* res.status(500).send("Err"), and a request that is never answered *)
Err500 == [status |-> 500]
Unanswered == [unanswered |-> TRUE]

(* Route names of each iteration *)
ChatRoute(v) == IF v = "B" THEN "/gather" ELSE "/main-gather"
LogicRoute(v) == IF v = "P1" THEN "/music-process" ELSE "/music-logic"
WaitRoute(v) ==
    CASE v = "B" -> "/music-wait"
      [] v = "P1" -> "/music-check-status"
      [] OTHER -> "/music-wait-loop"

(* What the telephony layer may deliver next for call c *)
IsDoc(d) == "gather" \in DOMAIN d
CanGather(c, route) == IsDoc(resp[c]) /\ resp[c].gather = route
CanRedirect(c, route) == IsDoc(resp[c]) /\ resp[c].redirect = route

Send(c, d) == resp' = [resp EXCEPT ![c] = d]

----------------------------------------------------------------------------
Init ==
    /\ variant \in Variants
    /\ numKeys \in 0..MaxKeys
    /\ calls = {"CA1"}
    /\ now = 0
    /\ sessions = [c \in CallSids |-> NoSession]
    /\ downloadQueue = [c \in CallSids |-> NoJob]
    /\ children = {}
    /\ nextId = 1
    /\ aiReqs = {}
    /\ resp = [c \in CallSids |-> NoDoc]

(* const getSession = (callSid) => { if (!sessions.has(callSid)) ... } *)
getSession(ss, c) ==
    IF ss[c] = NoSession THEN [ss EXCEPT ![c] = NewSession] ELSE ss

(* sessions.delete(CallSid): requests already awaiting the AI backend keep *)
(* their reference to the discarded session object.                       *)
Orphaned(c) ==
    {IF q.callSid = c THEN [q EXCEPT !.orphan = TRUE] ELSE q : q \in aiReqs}

(* CONFIG.VERIFIED_CALLERS.includes(caller) *)
VerifiedMut(from) == TRUE
Verified(from) == from \in VERIFIED_CALLERS

(* sessions.delete(req.body.CallSid) *)
DiscardMut(ss, c) == ss
DiscardAll(ss, c) == [x \in CallSids |-> NoSession]
Discard(ss, c) == [ss EXCEPT ![c] = NoSession]

(* app.all("/twiml") of iteration A *)
Twiml(c, from) ==
    /\ variant = "A"
    /\ IF ~Verified(from)
       THEN /\ Send(c, RejectDoc)
            /\ UNCHANGED <<sessions, aiReqs>>
       ELSE /\ sessions' = Discard(sessions, c)
            /\ aiReqs' = Orphaned(c)
            /\ Send(c, SayGather(WELCOME, "/main-gather"))
    /\ UNCHANGED <<variant, numKeys, calls, now, downloadQueue, children, nextId>>

(* catch (e) { console.error(e); res.status(500).send("Err"); } of         *)
(* /twiml (A): an exception raised by the first statement of the try       *)
(* block, before any state is touched                                      *)
TwimlCatch(c) ==
    /\ variant = "A"
    /\ Send(c, Err500)
    /\ UNCHANGED <<variant, numKeys, calls, now, sessions, downloadQueue, children,
                   nextId, aiReqs>>

(* app.post("/twiml") of iterations B, P0, P1 *)
TwimlPost(c, from) ==
    /\ variant \in {"B", "P0", "P1"}
    /\ IF ~Verified(from)
       THEN /\ Send(c, RejectDoc)
            /\ UNCHANGED <<sessions, aiReqs>>
       ELSE /\ sessions' = getSession(Discard(sessions, c), c)
            /\ aiReqs' = Orphaned(c)
            /\ Send(c, SayGather(WELCOME, ChatRoute(variant)))
    /\ UNCHANGED <<variant, numKeys, calls, now, downloadQueue, children, nextId>>

----------------------------------------------------------------------------
(* Chat *)

(* model.startChat({ history: session.chatHistory }); chat.sendMessage(text) *)
(* with the first key.  The chat is given the session's own chatHistory    *)
(* array, so the request is tied to the session and not to a copy.         *)
AiReq(c, text) == [callSid |-> c, text |-> text, key |-> 1, orphan |-> FALSE]

(* askGemini / getGeminiResponse up to the first await: with no key        *)
(* configured the reply is returned without calling the backend.           *)
(* First line of askGemini (A): if (GEMINI_KEYS.length === 0) return ...   *)
askGemini(c, text) ==
    IF numKeys = 0
    THEN /\ aiReqs' = aiReqs
         /\ Send(c, SayGather(NO_KEYS, "/main-gather"))
    ELSE /\ aiReqs' = aiReqs \cup {AiReq(c, text)}
         /\ Send(c, NoDoc)

(* getGeminiResponse (B, P0, P1): the for loop over GEMINI_KEYS *)
getGeminiResponse(c, text) ==
    IF numKeys = 0
    THEN /\ aiReqs' = aiReqs
         /\ Send(c, SayGather(BRAIN_OFFLINE, ChatRoute(variant)))
    ELSE /\ aiReqs' = aiReqs \cup {AiReq(c, text)}
         /\ Send(c, NoDoc)

(* if (!SpeechResult && !Digits) *)
NoInputMut(d, s) == FALSE
NoInput(d, s) == s = None /\ d = None

(* if (Digits === "#") *)
EnterMusicMut(d) == FALSE
EnterMusic(d) == d = "#"

(* app.all("/main-gather") of iteration A: the handler *)
MainGatherHandler(c, d, s) ==
    /\ variant = "A"
    /\ IF EnterMusic(d)
       THEN /\ Send(c, RedirectOnly("/music-mode"))
            /\ UNCHANGED <<sessions, aiReqs>>
       ELSE IF NoInput(d, s)
       THEN /\ Send(c, GatherOnly("/main-gather"))
            /\ UNCHANGED <<sessions, aiReqs>>
       ELSE /\ sessions' = getSession(sessions, c)
            /\ askGemini(c, s)
    /\ UNCHANGED <<variant, numKeys, calls, now, downloadQueue, children, nextId>>

(* /main-gather as the telephony layer delivers it: to the route the last *)
(* document gathers on, with at most MaxAiReqs requests awaiting the AI   *)
(* backend afterwards                                                     *)
MainGather(c, d, s) ==
    /\ CanGather(c, "/main-gather")
    /\ MainGatherHandler(c, d, s)
    /\ Cardinality(aiReqs') <= MaxAiReqs

(* catch (e) { console.error(e); } of /main-gather (A): an exception      *)
(* raised by the first statement of the try block; nothing is sent        *)
MainGatherCatch(c) ==
    /\ variant = "A"
    /\ CanGather(c, "/main-gather")
    /\ Send(c, Unanswered)
    /\ UNCHANGED <<variant, numKeys, calls, now, sessions, downloadQueue, children,
                   nextId, aiReqs>>

(* app.post("/gather") of B; app.post("/main-gather") of P0 and P1: the *)
(* handler                                                             *)
GatherHandler(c, d, s) ==
    /\ variant \in {"B", "P0", "P1"}
    /\ sessions' = getSession(sessions, c)
    /\ IF d = "0"
       THEN Send(c, RedirectOnly("/twiml")) /\ UNCHANGED aiReqs
       ELSE IF EnterMusic(d)
       THEN Send(c, RedirectOnly("/music-mode")) /\ UNCHANGED aiReqs
       ELSE IF s = None
       THEN Send(c, GatherOnly(ChatRoute(variant))) /\ UNCHANGED aiReqs
       ELSE getGeminiResponse(c, s)
    /\ UNCHANGED <<variant, numKeys, calls, now, downloadQueue, children, nextId>>

Gather(c, d, s) ==
    /\ CanGather(c, ChatRoute(variant))
    /\ GatherHandler(c, d, s)
    /\ Cardinality(aiReqs') <= MaxAiReqs

(* session.chatHistory.push({ role: "user", ... });  *)
(* session.chatHistory.push({ role: "model", ... }); *)
PushTurnsSwapped(h, text, reply) ==
    h \o <<[role |-> "model", text |-> reply], [role |-> "user", text |-> text]>>
PushTurnsUserOnly(h, text, reply) == h \o <<[role |-> "user", text |-> text]>>
PushTurns(h, text, reply) ==
    h \o <<[role |-> "user", text |-> text], [role |-> "model", text |-> reply]>>

(* chat.sendMessage resolves: both turns are pushed and the reply is said *)
AiReplyHandler(q, reply) ==
    /\ q \in aiReqs
    /\ aiReqs' = aiReqs \ {q}
    /\ IF q.orphan
       THEN UNCHANGED <<sessions, resp>>
       ELSE /\ sessions' = [sessions EXCEPT ![q.callSid].chatHistory =
                   PushTurns(@, q.text, reply)]
            /\ Send(q.callSid, SayGather(reply, ChatRoute(variant)))
    /\ UNCHANGED <<variant, numKeys, calls, now, downloadQueue, children, nextId>>

(* The reply, while the transcript stays within MaxChat entries *)
AiReply(q, reply) ==
    /\ AiReplyHandler(q, reply)
    /\ q.orphan \/ Len(sessions'[q.callSid].chatHistory) <= MaxChat

(* for (const key of CONFIG.GEMINI_KEYS): is there a key after this one? *)
LastKeyMut(q) == TRUE
LastKey(q) == q.key >= numKeys

(* The next turn of the loop: the same message with the next key *)
NextKey(q) == [q EXCEPT !.key = @ + 1]

(* catch (e) { console.error(...) }: the two push statements of the try *)
(* block are skipped, the transcript stays as it is                     *)
CatchTurnsUser(h, text) == h \o <<[role |-> "user", text |-> text]>>
CatchTurns(h, text) == h

(* chat.sendMessage throws: the catch block moves on to the next key, and *)
(* after the last key the apology is returned                             *)
AiThrow(q) ==
    /\ q \in aiReqs
    /\ IF ~LastKey(q)
       THEN /\ aiReqs' = (aiReqs \ {q}) \cup {NextKey(q)}
            /\ UNCHANGED resp
       ELSE /\ aiReqs' = aiReqs \ {q}
            /\ IF q.orphan
               THEN UNCHANGED resp
               ELSE Send(q.callSid, SayGather(BRAIN_OFFLINE, ChatRoute(variant)))
    /\ IF q.orphan
       THEN UNCHANGED sessions
       ELSE sessions' = [sessions EXCEPT ![q.callSid].chatHistory =
                CatchTurns(@, q.text)]
    /\ UNCHANGED <<variant, numKeys, calls, now, downloadQueue, children, nextId>>

----------------------------------------------------------------------------
(* Music *)

(* app.all("/music-mode") *)
MusicMode(c) ==
    /\ CanRedirect(c, "/music-mode")
    /\ Send(c, SayGather(MUSIC_WELCOME, LogicRoute(variant)))
    /\ UNCHANGED <<variant, numKeys, calls, now, sessions, downloadQueue, children,
                   nextId, aiReqs>>

(* searchAndDownload (A), up to spawn *)
searchAndDownload(c, query) ==
    /\ nextId <= MaxJobs
    /\ downloadQueue' = [downloadQueue EXCEPT ![c] =
           [status |-> "pending", startTime |-> now]]
    /\ children' = children \cup {[id |-> nextId, callSid |-> c, query |-> query,
                                  started |-> now, attempt |-> 1]}
    /\ nextId' = nextId + 1

(* startDownload (B, P0, P1), up to spawn; P1 records no startTime *)
startDownload(c, query) ==
    /\ nextId <= MaxJobs
    /\ downloadQueue' = [downloadQueue EXCEPT ![c] =
           IF variant = "P1" THEN [status |-> "pending"]
           ELSE [status |-> "pending", startTime |-> now]]
    /\ children' = children \cup {[id |-> nextId, callSid |-> c, query |-> query,
                                  started |-> now, attempt |-> 1]}
    /\ nextId' = nextId + 1

(* if (session.musicHistory.length === 0) *)
NoHistoryMut(h) == FALSE
NoHistory(h) == Len(h) = 0

(* if (Digits === "4" && index > 0) index--;                       *)
(* if (Digits === "6" && index < musicHistory.length - 1) index++; *)
NavIndexNoFloor(d, i, n) ==
    IF d = "4" THEN i - 1
    ELSE IF d = "6" /\ i < n - 1 THEN i + 1
    ELSE i
NavIndexNoCeiling(d, i, n) ==
    IF d = "4" /\ i > 0 THEN i - 1
    ELSE IF d = "6" THEN i + 1
    ELSE i
NavIndex(d, i, n) ==
    IF d = "4" /\ i > 0 THEN i - 1
    ELSE IF d = "6" /\ i < n - 1 THEN i + 1
    ELSE i

(* if (SpeechResult) *)
HasQueryMut(s) == TRUE
HasQuery(s) == s # None

(* app.all("/music-logic"); app.post("/music-process") in P1: the handler *)
MusicLogicHandler(c, d, s) ==
    /\ LET ss == getSession(sessions, c)
           h == ss[c].musicHistory
           idx == NavIndex(d, ss[c].index, Len(h))
       IN  IF d = "0"
           THEN /\ sessions' = ss
                /\ Send(c, RedirectOnly("/twiml"))
                /\ UNCHANGED <<downloadQueue, children, nextId>>
           ELSE IF d \in {"4", "5", "6"}
           THEN /\ UNCHANGED <<downloadQueue, children, nextId>>
                /\ IF NoHistory(h)
                   THEN /\ sessions' = ss
                        /\ Send(c, SayRedirect(NO_HISTORY, "/music-mode"))
                   ELSE /\ sessions' = [ss EXCEPT ![c].index = idx]
                        /\ IF idx + 1 \in DOMAIN h
                           THEN Send(c, PlayDoc(h[idx + 1].title, h[idx + 1].url,
                                                LogicRoute(variant)))
                           ELSE Send(c, CrashDoc)
           ELSE IF HasQuery(s)
           THEN /\ sessions' = ss
                /\ IF variant = "A" THEN searchAndDownload(c, s)
                                    ELSE startDownload(c, s)
                /\ Send(c, SayRedirect(SEARCHING, WaitRoute(variant)))
           ELSE /\ sessions' = ss
                /\ Send(c, SayRedirect(NOT_CAUGHT, "/music-mode"))
                /\ UNCHANGED <<downloadQueue, children, nextId>>
    /\ UNCHANGED <<variant, numKeys, calls, now, aiReqs>>

MusicLogic(c, d, s) == CanGather(c, LogicRoute(variant)) /\ MusicLogicHandler(c, d, s)

(* const foundFile = files.find(f => f.startsWith(id)) *)
Found(file) == file # "absent"

(* child.on('close') of searchAndDownload (A): `file` tells what          *)
(* DOWNLOAD_DIR holds under the job's id; a file of any size gives done,  *)
(* whatever the exit code                                                 *)
searchAndDownloadClose(j, code, file) ==
    /\ variant = "A"
    /\ j \in children
    /\ children' = children \ {j}
    /\ downloadQueue' = [downloadQueue EXCEPT ![j.callSid] =
           IF Found(file)
           THEN [status |-> "done", url |-> MusicUrl(j.id), title |-> j.query]
           ELSE [status |-> "error"]]
    /\ UNCHANGED <<variant, numKeys, calls, now, sessions, nextId, aiReqs, resp>>

startDownloadCloseKeepsStart(j, code, file) ==
    /\ variant \in {"B", "P0", "P1"}
    /\ j \in children
    /\ children' = children \ {j}
    /\ downloadQueue' = [downloadQueue EXCEPT ![j.callSid] =
           IF code = 0
           THEN [status |-> "done", url |-> MusicUrl(j.id), title |-> j.query,
                 filename |-> j.id, startTime |-> j.started]
           ELSE [status |-> "error"]]
    /\ UNCHANGED <<variant, numKeys, calls, now, sessions, nextId, aiReqs, resp>>

(* child.on('close') of startDownload (B, P0, P1): exit code 0 counts *)
startDownloadClose(j, code, file) ==
    /\ variant \in {"B", "P0", "P1"}
    /\ j \in children
    /\ children' = children \ {j}
    /\ downloadQueue' = [downloadQueue EXCEPT ![j.callSid] =
           IF code = 0
           THEN IF variant = "P1"
                THEN [status |-> "done", url |-> MusicUrl(j.id), title |-> j.query]
                ELSE [status |-> "done", url |-> MusicUrl(j.id), title |-> j.query,
                      filename |-> j.id]
           ELSE [status |-> "error"]]
    /\ UNCHANGED <<variant, numKeys, calls, now, sessions, nextId, aiReqs, resp>>

(* session.musicHistory.push({title, url}); session.index = length - 1 *)
PushTrackTwice(ss, c, dl) ==
    [ss EXCEPT ![c].musicHistory = @ \o <<[title |-> dl.title, url |-> dl.url],
                                           [title |-> dl.title, url |-> dl.url]>>,
               ![c].index = Len(ss[c].musicHistory) + 1]
PushTrackFront(ss, c, dl) ==
    [ss EXCEPT ![c].musicHistory = <<[title |-> dl.title, url |-> dl.url]>> \o @,
               ![c].index = Len(ss[c].musicHistory)]
PushTrack(ss, c, dl) ==
    [ss EXCEPT ![c].musicHistory = Append(@, [title |-> dl.title, url |-> dl.url]),
               ![c].index = Len(ss[c].musicHistory)]

(* Date.now() - dl.startTime > 60000; a missing startTime gives NaN, and *)
(* every comparison with NaN is false                                    *)
OverBudgetMut(dl) ==
    "startTime" \in DOMAIN dl /\ now - dl.startTime > 6000
OverBudget(dl) ==
    "startTime" \in DOMAIN dl /\ now - dl.startTime > WaitBudget

(* else if (dl.status === 'error' || Date.now() - dl.startTime > 60000) *)
JobFailedMut(dl) == OverBudget(dl)
JobFailed(dl) == dl.status = "error" \/ OverBudget(dl)

(* if (!dl): the document for a call identifier without an entry *)
LostDocLoop(v) == PauseRedirect(2, WaitRoute(v))
LostDoc(v) ==
    IF v = "A" THEN RedirectOnly("/music-mode")
    ELSE SayRedirect(ERROR_SAY, "/music-mode")

(* r.say("Download failed."); r.redirect("/music-mode") *)
FailureDocLoop(text) == SayRedirect(text, WaitRoute(variant))
FailureDoc(text) == SayRedirect(text, "/music-mode")

(* app.all("/music-wait-loop") of iteration A *)
MusicWaitLoopHandler(c) ==
    /\ variant = "A"
    /\ LET dl == downloadQueue[c] IN
       IF dl = NoJob
       THEN /\ Send(c, LostDoc(variant))
            /\ UNCHANGED <<sessions, downloadQueue>>
       ELSE IF dl.status = "done"
       THEN /\ Len(getSession(sessions, c)[c].musicHistory) < MaxHistory
            /\ sessions' = PushTrack(getSession(sessions, c), c, dl)
            /\ Send(c, PlayDoc(dl.title, dl.url, "/music-logic"))
            /\ UNCHANGED downloadQueue
       ELSE IF JobFailed(dl)
       THEN /\ Send(c, FailureDoc(DOWNLOAD_FAILED))
            /\ downloadQueue' = [downloadQueue EXCEPT ![c] = NoJob]
            /\ UNCHANGED sessions
       ELSE /\ Send(c, PauseRedirect(2, "/music-wait-loop"))
            /\ UNCHANGED <<sessions, downloadQueue>>
    /\ UNCHANGED <<variant, numKeys, calls, now, children, nextId, aiReqs>>

MusicWaitLoop(c) == CanRedirect(c, "/music-wait-loop") /\ MusicWaitLoopHandler(c)

(* app.post("/music-wait") of iteration B *)
MusicWaitHandler(c) ==
    /\ variant = "B"
    /\ LET dl == downloadQueue[c] IN
       IF dl = NoJob
       THEN /\ Send(c, LostDoc(variant))
            /\ UNCHANGED sessions
       ELSE IF dl.status = "pending"
       THEN /\ IF OverBudget(dl)
               THEN Send(c, FailureDoc(TOOK_TOO_LONG))
               ELSE Send(c, PauseRedirect(2, "/music-wait"))
            /\ UNCHANGED sessions
       ELSE IF dl.status = "error"
       THEN /\ Send(c, FailureDoc(DOWNLOAD_FAILED))
            /\ UNCHANGED sessions
       ELSE /\ Len(getSession(sessions, c)[c].musicHistory) < MaxHistory
            /\ sessions' = PushTrack(getSession(sessions, c), c, dl)
            /\ Send(c, PlayDoc(dl.title, dl.url, "/music-logic"))
    /\ UNCHANGED <<variant, numKeys, calls, now, downloadQueue, children, nextId, aiReqs>>

MusicWait(c) == CanRedirect(c, "/music-wait") /\ MusicWaitHandler(c)

(* app.post("/music-wait-loop") of iteration P0 *)
MusicWaitLoopP0Handler(c) ==
    /\ variant = "P0"
    /\ LET dl == downloadQueue[c] IN
       IF dl = NoJob
       THEN /\ Send(c, LostDoc(variant))
            /\ UNCHANGED <<sessions, downloadQueue>>
       ELSE IF OverBudget(dl)
       THEN /\ Send(c, FailureDoc(TOOK_TOO_LONG))
            /\ downloadQueue' = [downloadQueue EXCEPT ![c] = NoJob]
            /\ UNCHANGED sessions
       ELSE IF dl.status = "pending"
       THEN /\ Send(c, PauseRedirect(2, "/music-wait-loop"))
            /\ UNCHANGED <<sessions, downloadQueue>>
       ELSE IF dl.status = "error"
       THEN /\ Send(c, FailureDoc(DOWNLOAD_FAILED))
            /\ downloadQueue' = [downloadQueue EXCEPT ![c] = NoJob]
            /\ UNCHANGED sessions
       ELSE /\ Len(getSession(sessions, c)[c].musicHistory) < MaxHistory
            /\ sessions' = PushTrack(getSession(sessions, c), c, dl)
            /\ Send(c, PlayDoc(dl.title, dl.url, "/music-logic"))
            /\ UNCHANGED downloadQueue
    /\ UNCHANGED <<variant, numKeys, calls, now, children, nextId, aiReqs>>

MusicWaitLoopP0(c) == CanRedirect(c, "/music-wait-loop") /\ MusicWaitLoopP0Handler(c)

(* app.post("/music-check-status") of iteration P1 *)
MusicCheckStatusHandler(c) ==
    /\ variant = "P1"
    /\ LET dl == downloadQueue[c] IN
       IF dl = NoJob
       THEN /\ Send(c, LostDoc(variant))
            /\ UNCHANGED <<sessions, downloadQueue>>
       ELSE IF dl.status = "pending"
       THEN /\ Send(c, PauseRedirect(3, "/music-check-status"))
            /\ UNCHANGED <<sessions, downloadQueue>>
       ELSE IF dl.status = "error"
       THEN /\ Send(c, FailureDoc(DOWNLOAD_FAILED))
            /\ downloadQueue' = [downloadQueue EXCEPT ![c] = NoJob]
            /\ UNCHANGED sessions
       ELSE /\ Len(getSession(sessions, c)[c].musicHistory) < MaxHistory
            /\ sessions' = PushTrack(getSession(sessions, c), c, dl)
            /\ Send(c, PlayDoc(dl.title, dl.url, "/music-process"))
            /\ downloadQueue' = [downloadQueue EXCEPT ![c] = NoJob]
    /\ UNCHANGED <<variant, numKeys, calls, now, children, nextId, aiReqs>>

MusicCheckStatus(c) == CanRedirect(c, "/music-check-status") /\ MusicCheckStatusHandler(c)

(* The clock read by Date.now() *)
Tick ==
    /\ now + TickMs <= MaxNow
    /\ now' = now + TickMs
    /\ UNCHANGED <<variant, numKeys, calls, sessions, downloadQueue, children, nextId, aiReqs, resp>>

(* The clock read by Date.now(), moved past every wait budget at once *)
TickPastBudget ==
    /\ now = 0
    /\ now' = MaxNow
    /\ UNCHANGED <<variant, numKeys, calls, sessions, downloadQueue, children, nextId, aiReqs, resp>>

Next ==
    \/ \E c \in calls, from \in Callers : Twiml(c, from)
    \/ \E c \in calls, from \in Callers : TwimlPost(c, from)
    \/ \E c \in calls : TwimlCatch(c)
    \/ \E c \in calls : MainGatherCatch(c)
    \/ \E c \in calls, d \in DigitInputs, s \in SpeechInputs : MainGather(c, d, s)
    \/ \E c \in calls, d \in DigitInputs, s \in SpeechInputs : Gather(c, d, s)
    \/ \E q \in aiReqs, reply \in Replies : AiReply(q, reply)
    \/ \E q \in aiReqs : AiThrow(q)
    \/ \E c \in calls : MusicMode(c)
    \/ \E c \in calls, d \in DigitInputs, s \in SpeechInputs : MusicLogic(c, d, s)
    \/ \E j \in children, code \in ExitCodes, file \in Files : searchAndDownloadClose(j, code, file)
    \/ \E j \in children, code \in ExitCodes, file \in Files : startDownloadClose(j, code, file)
    \/ \E c \in calls : MusicWaitLoop(c)
    \/ \E c \in calls : MusicWait(c)
    \/ \E c \in calls : MusicWaitLoopP0(c)
    \/ \E c \in calls : MusicCheckStatus(c)
    \/ Tick

Spec == Init /\ [][Next]_vars

(* The chat half of the program on its own, with more keys configured: *)
(* call start, the chat route and the outcomes of the AI backend       *)
InitChat ==
    /\ variant \in Variants
    /\ numKeys \in 0..MaxChatKeys
    /\ calls = {"CA1"}
    /\ now = 0
    /\ sessions = [c \in CallSids |-> NoSession]
    /\ downloadQueue = [c \in CallSids |-> NoJob]
    /\ children = {}
    /\ nextId = 1
    /\ aiReqs = {}
    /\ resp = [c \in CallSids |-> NoDoc]

ChatSpeech == SpeechInputs \cup {"rock"}

(* The handler of call c's last chat event is suspended at its await *)
Awaiting(c) ==
    resp[c] = NoDoc /\ \E q \in aiReqs : q.callSid = c /\ ~q.orphan

(* A chat event as it is delivered here: to the route the last document  *)
(* gathers on, or once more while the previous event of the call is not  *)
(* answered yet                                                          *)
ChatEvent(c, d, s) ==
    /\ CanGather(c, ChatRoute(variant)) \/ Awaiting(c)
    /\ MainGatherHandler(c, d, s) \/ GatherHandler(c, d, s)
    /\ Cardinality(aiReqs') <= MaxChatAiReqs

ChatReply(q, reply) ==
    /\ AiReplyHandler(q, reply)
    /\ q.orphan \/ Len(sessions'[q.callSid].chatHistory) <= MaxTranscript

NextChat ==
    \/ \E c \in calls, from \in Callers : Twiml(c, from)
    \/ \E c \in calls, from \in Callers : TwimlPost(c, from)
    \/ \E c \in calls, d \in DigitInputs, s \in ChatSpeech : ChatEvent(c, d, s)
    \/ \E q \in aiReqs, reply \in Replies : ChatReply(q, reply)
    \/ \E q \in aiReqs : AiThrow(q)

ChatSpec == InitChat /\ [][NextChat]_vars

(* The program with no key configured, and a telephony layer that may also *)
(* request the wait route for a call identifier that has no job entry      *)
InitStray ==
    /\ variant \in Variants
    /\ numKeys = 0
    /\ calls = {"CA1"}
    /\ now = 0
    /\ sessions = [c \in CallSids |-> NoSession]
    /\ downloadQueue = [c \in CallSids |-> NoJob]
    /\ children = {}
    /\ nextId = 1
    /\ aiReqs = {}
    /\ resp = [c \in CallSids |-> NoDoc]

PollHandler(c) ==
    \/ MusicWaitLoopHandler(c)
    \/ MusicWaitHandler(c)
    \/ MusicWaitLoopP0Handler(c)
    \/ MusicCheckStatusHandler(c)

StrayPoll(c) == downloadQueue[c] = NoJob /\ PollHandler(c)

NextStray ==
    \/ \E c \in calls, from \in Callers : Twiml(c, from)
    \/ \E c \in calls, from \in Callers : TwimlPost(c, from)
    \/ \E c \in calls, d \in DigitInputs, s \in SpeechInputs : MainGather(c, d, s)
    \/ \E c \in calls, d \in DigitInputs, s \in SpeechInputs : Gather(c, d, s)
    \/ \E c \in calls : MusicMode(c)
    \/ \E c \in calls, d \in DigitInputs, s \in SpeechInputs : MusicLogic(c, d, s)
    \/ \E j \in children, code \in ExitCodes, file \in Files : searchAndDownloadClose(j, code, file)
    \/ \E j \in children, code \in ExitCodes, file \in Files : startDownloadClose(j, code, file)
    \/ \E c \in calls : MusicWaitLoop(c) \/ MusicWait(c) \/ MusicWaitLoopP0(c) \/ MusicCheckStatus(c)
    \/ \E c \in calls : StrayPoll(c)
    \/ Tick

StraySpec == InitStray /\ [][NextStray]_vars

(* Two calls at the same time, with no key configured; the clock either *)
(* stays where it is or passes every wait budget in one step           *)
InitTwoCalls ==
    /\ variant \in Variants
    /\ numKeys = 0
    /\ calls = CallSids
    /\ now = 0
    /\ sessions = [c \in CallSids |-> NoSession]
    /\ downloadQueue = [c \in CallSids |-> NoJob]
    /\ children = {}
    /\ nextId = 1
    /\ aiReqs = {}
    /\ resp = [c \in CallSids |-> NoDoc]

NextTwoCalls ==
    \/ \E c \in calls, from \in Callers : Twiml(c, from)
    \/ \E c \in calls, from \in Callers : TwimlPost(c, from)
    \/ \E c \in calls, d \in DigitInputs, s \in SpeechInputs : MainGather(c, d, s)
    \/ \E c \in calls, d \in DigitInputs, s \in SpeechInputs : Gather(c, d, s)
    \/ \E c \in calls : MusicMode(c)
    \/ \E c \in calls, d \in DigitInputs, s \in SpeechInputs : MusicLogic(c, d, s)
    \/ \E j \in children, code \in ExitCodes, file \in Files : searchAndDownloadClose(j, code, file)
    \/ \E j \in children, code \in ExitCodes, file \in Files : startDownloadClose(j, code, file)
    \/ \E c \in calls : MusicWaitLoop(c) \/ MusicWait(c) \/ MusicWaitLoopP0(c) \/ MusicCheckStatus(c)
    \/ TickPastBudget

TwoCallSpec == InitTwoCalls /\ [][NextTwoCalls]_vars

(* The whole program, with a clock that keeps advancing and a telephony *)
(* layer that keeps following the redirect to the wait route            *)
LiveSpec ==
    /\ Init
    /\ [][Next]_vars
    /\ WF_vars(Tick)
    /\ \A c \in CallSids : WF_vars(MusicWaitLoop(c) \/ MusicWait(c)
                                      \/ MusicWaitLoopP0(c) \/ MusicCheckStatus(c))

(* The last document of call c has the telephony layer play a track *)
IsPlaying(c) == IsDoc(resp[c]) /\ resp[c].play # NoUrl

(* g.play(song.url), g.play(dl.url): the URL names the whole file that  *)
(* yt-dlp wrote, and <Play> starts a file at its beginning; the second  *)
(* of the track at which the played audio starts                        *)
SliceOffset(url) == 0

(* The clock, advancing only while some call is being played a track *)
PlayTick == (\E c \in calls : IsPlaying(c)) /\ Tick

(* The program with no key configured and a clock that stands still *)
(* except while a track is played: `now` is the time played so far  *)
NextPlayback ==
    \/ \E c \in calls, from \in Callers : Twiml(c, from)
    \/ \E c \in calls, from \in Callers : TwimlPost(c, from)
    \/ \E c \in calls, d \in DigitInputs, s \in SpeechInputs : MainGather(c, d, s)
    \/ \E c \in calls, d \in DigitInputs, s \in SpeechInputs : Gather(c, d, s)
    \/ \E c \in calls : MusicMode(c)
    \/ \E c \in calls, d \in DigitInputs, s \in SpeechInputs : MusicLogic(c, d, s)
    \/ \E j \in children, code \in ExitCodes, file \in Files : searchAndDownloadClose(j, code, file)
    \/ \E j \in children, code \in ExitCodes, file \in Files : startDownloadClose(j, code, file)
    \/ \E c \in calls : MusicWaitLoop(c) \/ MusicWait(c) \/ MusicWaitLoopP0(c) \/ MusicCheckStatus(c)
    \/ PlayTick

PlaybackSpec == InitStray /\ [][NextPlayback]_vars

(* The wait route requested once more for a call that has a job entry: *)
(* the telephony layer repeats a webhook request it got no answer to   *)
RePoll(c) == downloadQueue[c] # NoJob /\ PollHandler(c)

NextRedeliver ==
    \/ \E c \in calls, from \in Callers : Twiml(c, from)
    \/ \E c \in calls, from \in Callers : TwimlPost(c, from)
    \/ \E c \in calls, d \in DigitInputs, s \in SpeechInputs : MainGather(c, d, s)
    \/ \E c \in calls, d \in DigitInputs, s \in SpeechInputs : Gather(c, d, s)
    \/ \E c \in calls : MusicMode(c)
    \/ \E c \in calls, d \in DigitInputs, s \in SpeechInputs : MusicLogic(c, d, s)
    \/ \E j \in children, code \in ExitCodes, file \in Files : searchAndDownloadClose(j, code, file)
    \/ \E j \in children, code \in ExitCodes, file \in Files : startDownloadClose(j, code, file)
    \/ \E c \in calls : RePoll(c)
    \/ Tick

RedeliverSpec == InitStray /\ [][NextRedeliver]_vars

(* setTimeout(() => { ... fs.unlinkSync(p) }, 600000) *)
RetentionMs == 600000

(* The retention period passes while no download is running *)
RetentionElapses ==
    /\ now < RetentionMs
    /\ children = {}
    /\ now' = now + RetentionMs
    /\ UNCHANGED <<variant, numKeys, calls, sessions, downloadQueue, children, nextId, aiReqs, resp>>

(* if (!fs.existsSync(f)) return res.status(404): every download ran    *)
(* before the retention period passed, so once it has passed the timer *)
(* of every file has fired                                             *)
FileMissing == now >= RetentionMs

(* The program with no key configured; the caller searches, the      *)
(* retention period passes, and from then on the caller presses keys *)
NextRetention ==
    \/ \E c \in calls, from \in Callers : Twiml(c, from)
    \/ \E c \in calls, from \in Callers : TwimlPost(c, from)
    \/ \E c \in calls, d \in DigitInputs, s \in SpeechInputs : MainGather(c, d, s)
    \/ \E c \in calls, d \in DigitInputs, s \in SpeechInputs : Gather(c, d, s)
    \/ \E c \in calls : MusicMode(c)
    \/ \E c \in calls, d \in DigitInputs, s \in SpeechInputs :
           now < RetentionMs /\ MusicLogic(c, d, s)
    \/ \E c \in calls, d \in DigitInputs : MusicLogic(c, d, None)
    \/ \E j \in children, code \in ExitCodes, file \in Files : searchAndDownloadClose(j, code, file)
    \/ \E j \in children, code \in ExitCodes, file \in Files : startDownloadClose(j, code, file)
    \/ \E c \in calls : MusicWaitLoop(c) \/ MusicWait(c) \/ MusicWaitLoopP0(c) \/ MusicCheckStatus(c)
    \/ RetentionElapses

RetentionSpec == InitStray /\ [][NextRetention]_vars

(* A request sent straight to the chat, music or wait route, whatever the *)
(* last document of the call was                                          *)
DirectEvent(c, d, s) ==
    \/ MainGatherHandler(c, d, s)
    \/ GatherHandler(c, d, s)
    \/ MusicLogicHandler(c, d, s)
DirectPoll(c) == PollHandler(c)

(* The program with no key configured, reached by requests that never *)
(* passed the allow-list: every call start comes from a stranger      *)
NextUngated ==
    \/ \E c \in calls : Twiml(c, Stranger)
    \/ \E c \in calls : TwimlPost(c, Stranger)
    \/ \E c \in calls, d \in DigitInputs, s \in SpeechInputs : DirectEvent(c, d, s)
    \/ \E c \in calls : DirectPoll(c)
    \/ \E j \in children, code \in ExitCodes, file \in Files : searchAndDownloadClose(j, code, file)
    \/ \E j \in children, code \in ExitCodes, file \in Files : startDownloadClose(j, code, file)

UngatedSpec == InitStray /\ [][NextUngated]_vars

(* The clock, advancing only while some call is at the wait route *)
WaitTick == (\E c \in calls : CanRedirect(c, WaitRoute(variant))) /\ Tick

(* The program with no key configured and a clock that stands still *)
(* except while a call waits for its download                       *)
NextWait ==
    \/ \E c \in calls, from \in Callers : Twiml(c, from)
    \/ \E c \in calls, from \in Callers : TwimlPost(c, from)
    \/ \E c \in calls, d \in DigitInputs, s \in SpeechInputs : MainGather(c, d, s)
    \/ \E c \in calls, d \in DigitInputs, s \in SpeechInputs : Gather(c, d, s)
    \/ \E c \in calls : MusicMode(c)
    \/ \E c \in calls, d \in DigitInputs, s \in SpeechInputs : MusicLogic(c, d, s)
    \/ \E j \in children, code \in ExitCodes, file \in Files : searchAndDownloadClose(j, code, file)
    \/ \E j \in children, code \in ExitCodes, file \in Files : startDownloadClose(j, code, file)
    \/ \E c \in calls : MusicWaitLoop(c) \/ MusicWait(c) \/ MusicWaitLoopP0(c) \/ MusicCheckStatus(c)
    \/ WaitTick

WaitSpec == InitStray /\ [][NextWait]_vars

----------------------------------------------------------------------------
(* Properties *)

CallStart(c, from) == Twiml(c, from) \/ TwimlPost(c, from)
Poll(c) == MusicWaitLoop(c) \/ MusicWait(c) \/ MusicWaitLoopP0(c) \/ MusicCheckStatus(c)
Fresh(ss, c) ==
    LET s == getSession(ss, c)[c]
    IN  s.chatHistory = <<>> /\ s.musicHistory = <<>> /\ s.index = -1

(* C1: a call start from a caller that is not on the allow-list is answered *)
(* by a rejection, and the session, the job-table entry and the spawned     *)
(* processes of that call identifier are left exactly as they were.         *)
C1_UnauthorizedRejected ==
    [][\A c \in CallSids, from \in Callers \ VERIFIED_CALLERS :
          CallStart(c, from) =>
              /\ resp'[c] = RejectDoc
              /\ sessions'[c] = sessions[c]
              /\ downloadQueue'[c] = downloadQueue[c]
              /\ children' = children]_vars

C1_Witness ==
    \E c \in CallSids :
        /\ resp[c] = RejectDoc
        /\ sessions[c] # NoSession
        /\ downloadQueue[c] # NoJob

(* C2: after a call start from an allow-listed caller the session the next *)
(* handler gets for that call identifier has an empty transcript, an empty *)
(* play history and the initial cursor, whatever was stored before.        *)
C2_FreshSessionAfterCallStart ==
    [][\A c \in CallSids, from \in VERIFIED_CALLERS :
          CallStart(c, from) => Fresh(sessions', c)]_vars

C2_Witness ==
    \E c \in CallSids :
        /\ resp[c] = SayGather(WELCOME, ChatRoute(variant))
        /\ Fresh(sessions, c)
        /\ nextId > 1
        /\ \E q \in aiReqs : q.callSid = c /\ q.orphan

NavDigits == {"4", "5", "6"}
Maximum(a, b) == IF a >= b THEN a ELSE b
Minimum(a, b) == IF a <= b THEN a ELSE b
History(ss, c) == getSession(ss, c)[c].musicHistory
Cursor(ss, c) == getSession(ss, c)[c].index
HasJob(c) == downloadQueue[c] # NoJob
IsPending(c) == HasJob(c) /\ downloadQueue[c].status = "pending"
(* The process whose spawn wrote the pending entry of call c: the latest *)
(* one spawned for c.                                                     *)
PendingChild(c) ==
    CHOOSE j \in children :
        j.callSid = c /\ \A k \in children : k.callSid = c => k.id <= j.id
Elapsed(c) == now - PendingChild(c).started
FailureSays == {DOWNLOAD_FAILED, TOOK_TOO_LONG}
IsWaitDoc(d) ==
    IsDoc(d) /\ d.pause > 0 /\ d.redirect = WaitRoute(variant) /\ d.say = ""
       /\ d.play = NoUrl /\ d.gather = ""
IsFailureDoc(d) ==
    IsDoc(d) /\ d.say \in FailureSays /\ d.redirect = "/music-mode"
       /\ d.play = NoUrl /\ d.gather = ""

(* C3: on every input route (chat, music menu, music playing) an event     *)
(* with digit 0 is answered by the redirect to the call-start route and    *)
(* nothing else happens: no request to the AI backend, no job, no cursor   *)
(* move.                                                                   *)
C3_ResetBeforeModeLogic ==
    [][\A c \in CallSids, s \in SpeechInputs :
          (MainGather(c, "0", s) \/ Gather(c, "0", s) \/ MusicLogic(c, "0", s)) =>
              /\ resp'[c] = RedirectOnly("/twiml")
              /\ aiReqs' = aiReqs
              /\ children' = children
              /\ downloadQueue' = downloadQueue
              /\ Cursor(sessions', c) = Cursor(sessions, c)]_vars

(* C4: whenever a session's play history is non-empty its cursor is an *)
(* index of that history.                                              *)
C4_CursorInRange ==
    \A c \in CallSids :
        (sessions[c] # NoSession /\ Len(sessions[c].musicHistory) > 0) =>
            /\ sessions[c].index >= 0
            /\ sessions[c].index <= Len(sessions[c].musicHistory) - 1

C4_Witness ==
    \E c \in CallSids :
        /\ sessions[c] # NoSession
        /\ Len(sessions[c].musicHistory) >= 2
        /\ sessions[c].index = 0

(* C5: a navigation digit (4, 5, 6) on an empty play history is answered  *)
(* by the "no history" announcement and the redirect to the music menu;   *)
(* nothing is played, the cursor stays where it was and the history is    *)
(* not read.                                                              *)
C5_NavigationOnEmptyHistory ==
    [][\A c \in CallSids, d \in NavDigits, s \in SpeechInputs :
          (MusicLogic(c, d, s) /\ Len(History(sessions, c)) = 0) =>
              /\ resp'[c] = SayRedirect(NO_HISTORY, "/music-mode")
              /\ Cursor(sessions', c) = Cursor(sessions, c)
              /\ History(sessions', c) = <<>>]_vars

C5_Witness ==
    \E c \in CallSids :
        /\ resp[c] = SayRedirect(NO_HISTORY, "/music-mode")
        /\ sessions[c] # NoSession
        /\ sessions[c].musicHistory = <<>>
        /\ sessions[c].index = -1

(* C6: with a non-empty history and cursor i, digit 4 moves the cursor to *)
(* max(i-1, 0), digit 6 to min(i+1, len-1), digit 5 leaves it at i, and   *)
(* the document plays the history entry at the resulting cursor.          *)
C6_NavigationMovesCursor ==
    [][\A c \in CallSids, d \in NavDigits, s \in SpeechInputs :
          (MusicLogic(c, d, s) /\ Len(History(sessions, c)) > 0) =>
              LET h == History(sessions, c)
                  i == Cursor(sessions, c)
                  e == CASE d = "4" -> Maximum(i - 1, 0)
                         [] d = "6" -> Minimum(i + 1, Len(h) - 1)
                         [] OTHER -> i
              IN  /\ e + 1 \in DOMAIN h
                  /\ Cursor(sessions', c) = e
                  /\ History(sessions', c) = h
                  /\ resp'[c] = PlayDoc(h[e + 1].title, h[e + 1].url,
                                        LogicRoute(variant))]_vars

C6_Witness ==
    \E c \in CallSids :
        /\ sessions[c] # NoSession
        /\ Len(sessions[c].musicHistory) >= 2
        /\ sessions[c].index = 0
        /\ resp[c] = PlayDoc(sessions[c].musicHistory[1].title,
                             sessions[c].musicHistory[1].url, LogicRoute(variant))

(* C7: a spoken query in the music menu records a pending job, spawns its *)
(* process and answers with the redirect to the wait route; a poll that   *)
(* finds the job pending within its budget answers with a pause and the   *)
(* redirect to the same wait route; a poll that finds the job done        *)
(* answers "Playing <title>" with the job's title and URL and appends     *)
(* exactly one entry, that title and URL, to the play history.            *)
C7_SearchPollPlay ==
    [][/\ \A c \in CallSids, d \in DigitInputs \ ({"0"} \cup NavDigits),
             s \in SpeechInputs \ {None} :
             MusicLogic(c, d, s) =>
                 /\ downloadQueue'[c] # NoJob
                 /\ downloadQueue'[c].status = "pending"
                 /\ Cardinality(children') = Cardinality(children) + 1
                 /\ resp'[c] = SayRedirect(SEARCHING, WaitRoute(variant))
       /\ \A c \in CallSids :
             (Poll(c) /\ IsPending(c) /\ Elapsed(c) <= WaitBudget) =>
                 IsWaitDoc(resp'[c])
       /\ \A c \in CallSids :
             (Poll(c) /\ HasJob(c) /\ downloadQueue[c].status = "done") =>
                 /\ resp'[c] = PlayDoc(downloadQueue[c].title, downloadQueue[c].url,
                                       LogicRoute(variant))
                 /\ History(sessions', c) = Append(History(sessions, c),
                        [title |-> downloadQueue[c].title,
                         url |-> downloadQueue[c].url])]_vars

C7_Witness ==
    \E c \in CallSids :
        /\ now > 0
        /\ nextId = 2
        /\ sessions[c] # NoSession
        /\ Len(sessions[c].musicHistory) = 1
        /\ resp[c] = PlayDoc("jazz", MusicUrl(1), LogicRoute(variant))

(* C8 as claimed: a poll of the wait route leaves the whole job table as *)
(* it was and spawns nothing.                                            *)
C8_PollNeverMutates ==
    [][\A c \in CallSids :
          Poll(c) => /\ downloadQueue' = downloadQueue
                     /\ children' = children
                     /\ nextId' = nextId]_vars

(* C8 amended: a poll starts no search and spawns nothing, never rewrites *)
(* an entry and never touches another call's entry; a poll that finds a   *)
(* pending job within its budget leaves the job table as it was; the only *)
(* change a poll makes is the removal of the polled call's own entry when *)
(* it consumes it.                                                        *)
C8_PollOnlyRemovesOwnEntry ==
    [][\A c \in CallSids :
          Poll(c) =>
              /\ children' = children
              /\ nextId' = nextId
              /\ \A o \in CallSids \ {c} : downloadQueue'[o] = downloadQueue[o]
              /\ \/ downloadQueue'[c] = downloadQueue[c]
                 \/ /\ downloadQueue'[c] = NoJob
                    /\ HasJob(c)
                    /\ ~(IsPending(c) /\ Elapsed(c) <= WaitBudget)]_vars

C8_Witness ==
    \E c \in CallSids :
        /\ IsWaitDoc(resp[c])
        /\ IsPending(c)
        /\ Elapsed(c) > 0

(* C9: a poll that finds the job pending answers "wait and re-poll" while *)
(* no more than 60 s have passed since the job was started, and reports   *)
(* the failure and returns to the music menu once more than 60 s have     *)
(* passed.                                                                *)
C9_PendingTimesOutAfterBudget ==
    [][\A c \in CallSids :
          (Poll(c) /\ IsPending(c)) =>
              IF Elapsed(c) <= WaitBudget
              THEN IsWaitDoc(resp'[c])
              ELSE IsFailureDoc(resp'[c])]_vars

JobsInFlight(c) == {j \in children : j.callSid = c}
Close(j, code, file) ==
    searchAndDownloadClose(j, code, file) \/ startDownloadClose(j, code, file)
(* The job whose close handler wrote a done entry: its id is in the URL *)
JobOfEntry(dl) == dl.url[2]
LaterJobRunning(c) ==
    \E j \in JobsInFlight(c) : j.id > JobOfEntry(downloadQueue[c])

(* C11: while no new search is started, a job-table entry whose status is   *)
(* done or error keeps that status for as long as the entry exists, also    *)
(* when the close handlers of several jobs of the call run one after the    *)
(* other.                                                                   *)
C11_StatusNeverReverts ==
    [][\A c \in CallSids :
          (/\ HasJob(c)
           /\ downloadQueue[c].status \in {"done", "error"}
           /\ nextId' = nextId
           /\ downloadQueue'[c] # NoJob) =>
              downloadQueue'[c].status = downloadQueue[c].status]_vars

(* C12: in every reachable state at most one yt-dlp process of a call *)
(* identifier has been spawned and has not exited.                    *)
C12_OneJobInFlight ==
    \A c \in CallSids : Cardinality(JobsInFlight(c)) <= 1

(* C13: the track a poll plays is never that of a job older than one that *)
(* is still running for the call: when a later job has been started, the  *)
(* earlier job's completion is not what the poll delivers.                *)
C13_LaterJobDelivered ==
    [][\A c \in CallSids :
          (Poll(c) /\ HasJob(c) /\ downloadQueue[c].status = "done") =>
              ~LaterJobRunning(c)]_vars

(* C14: the play history grows only in a poll that finds the job of the    *)
(* session's latest search done; it grows by one entry, that job's title   *)
(* and URL, and the cursor becomes the last index; a poll that finds a     *)
(* failed or timed-out job leaves the history as it was.                   *)
C14_AppendOnlyOnOwnJobDone ==
    [][\A c \in CallSids :
          /\ (Len(History(sessions', c)) > Len(History(sessions, c))) =>
                /\ Poll(c)
                /\ HasJob(c)
                /\ downloadQueue[c].status = "done"
                /\ ~LaterJobRunning(c)
                /\ History(sessions', c) = Append(History(sessions, c),
                       [title |-> downloadQueue[c].title,
                        url |-> downloadQueue[c].url])
                /\ Cursor(sessions', c) = Len(History(sessions', c)) - 1
          /\ (Poll(c) /\ HasJob(c) /\ downloadQueue[c].status # "done") =>
                History(sessions', c) = History(sessions, c)]_vars

(* C15: a close handler records done only when the download directory   *)
(* holds the job's file and the file is a full one; with no file, or a  *)
(* file of a few bytes, done is never recorded.                         *)
C15_DoneOnlyWithFullFile ==
    [][\A j \in children, code \in ExitCodes, file \in Files :
          (Close(j, code, file) /\ downloadQueue'[j.callSid].status = "done") =>
              file = "large"]_vars

(* C16: when the first process of a job exits without a full file the    *)
(* close handler spawns one retry and records no error yet; error is     *)
(* recorded only by the close handler of the retry.                      *)
C16_RetryBeforeError ==
    [][\A j \in children, code \in ExitCodes, file \in Files :
          /\ (Close(j, code, file) /\ j.attempt = 1
                  /\ (code # 0 \/ file # "large")) =>
                \E k \in children' : k.attempt = 2 /\ k.query = j.query
          /\ (Close(j, code, file)
                  /\ downloadQueue'[j.callSid].status = "error") =>
                j.attempt = 2]_vars

HasNextAction(d) == IsDoc(d) /\ (d.reject \/ d.gather # "" \/ d.redirect # "")

(* C17: for every call the last response is a document with a next action *)
(* (reject, gather or redirect), unless no event has been answered yet or *)
(* the handler is still awaiting the AI backend.                          *)
C17_EveryEventAnswered ==
    \A c \in CallSids : resp[c] = NoDoc \/ HasNextAction(resp[c])

Transcript(ss, c) == getSession(ss, c)[c].chatHistory
Forward(c, d, s) == MainGatherHandler(c, d, s) \/ GatherHandler(c, d, s)
ChatDigits == DigitInputs \ {"0", "#"}

(* C18: a chat turn starts with the first key; a key other than the first  *)
(* is tried only as the step after the failure of the key before it; a     *)
(* failure before the last key answers nothing yet; the first success is   *)
(* answered with its reply and a gather on the chat route; the apology is  *)
(* answered, with a gather on the chat route, by the failure of the last   *)
(* key and by nothing else while a key is configured.                      *)
C18_KeysTriedInOrder ==
    [][/\ \A n \in aiReqs' \ aiReqs :
             \/ n.key = 1
             \/ \E q \in aiReqs : n = [q EXCEPT !.orphan = TRUE]
             \/ \E q \in aiReqs : AiThrow(q) /\ n = [q EXCEPT !.key = q.key + 1]
       /\ \A q \in aiReqs :
             AiThrow(q) =>
                 IF q.key < numKeys
                 THEN /\ aiReqs' = (aiReqs \ {q}) \cup {[q EXCEPT !.key = q.key + 1]}
                      /\ resp' = resp
                 ELSE /\ aiReqs' = aiReqs \ {q}
                      /\ ~q.orphan => resp'[q.callSid] =
                             SayGather(BRAIN_OFFLINE, ChatRoute(variant))
       /\ \A q \in aiReqs, reply \in Replies :
             (AiReplyHandler(q, reply) /\ ~q.orphan) =>
                 /\ aiReqs' = aiReqs \ {q}
                 /\ resp'[q.callSid] = SayGather(reply, ChatRoute(variant))
       /\ \A c \in CallSids :
             (numKeys > 0 /\ resp'[c] # resp[c] /\ IsDoc(resp'[c])
                  /\ resp'[c].say = BRAIN_OFFLINE) =>
                 \E q \in aiReqs : AiThrow(q) /\ q.callSid = c /\ q.key = numKeys]_vars

C18_Witness ==
    /\ numKeys >= 2
    /\ \E q \in aiReqs : q.key = 2 /\ ~q.orphan /\ resp[q.callSid] = NoDoc

(* C19: a chat event with neither speech nor digit is answered by a bare *)
(* gather on the chat route; no request goes to the AI backend and the   *)
(* session's transcript is what it was.                                  *)
C19_SilenceReprompts ==
    [][\A c \in CallSids :
          Forward(c, None, None) =>
              /\ resp'[c] = GatherOnly(ChatRoute(variant))
              /\ aiReqs' = aiReqs
              /\ Transcript(sessions', c) = Transcript(sessions, c)]_vars

C19_Witness ==
    \E c \in CallSids :
        /\ resp[c] = GatherOnly(ChatRoute(variant))
        /\ sessions[c] # NoSession
        /\ Len(sessions[c].chatHistory) = 2
        /\ aiReqs = {}

(* C20: with a key configured, a chat event with speech sends one request *)
(* with that speech for the call's session and leaves the transcript as   *)
(* it was; when the backend replies, the user turn and then the reply are *)
(* appended to the transcript and the response says the reply and gathers *)
(* on the chat route.                                                     *)
C20_UtteranceForwarded ==
    [][/\ \A c \in CallSids, d \in ChatDigits, s \in ChatSpeech \ {None} :
             (Forward(c, d, s) /\ numKeys > 0) =>
                 /\ aiReqs' = aiReqs \cup
                        {[callSid |-> c, text |-> s, key |-> 1, orphan |-> FALSE]}
                 /\ Transcript(sessions', c) = Transcript(sessions, c)
       /\ \A q \in aiReqs, reply \in Replies :
             (AiReplyHandler(q, reply) /\ ~q.orphan) =>
                 /\ Transcript(sessions', q.callSid) =
                        Transcript(sessions, q.callSid) \o
                            <<[role |-> "user", text |-> q.text],
                              [role |-> "model", text |-> reply]>>
                 /\ resp'[q.callSid] = SayGather(reply, ChatRoute(variant))]_vars

C20_Witness ==
    \E c \in CallSids :
        /\ resp[c] = SayGather("hi", ChatRoute(variant))
        /\ sessions[c] # NoSession
        /\ sessions[c].chatHistory =
               <<[role |-> "user", text |-> "jazz"], [role |-> "model", text |-> "hi"]>>

(* A telephony event of call c is handled *)
EventOf(c) ==
    \/ \E from \in Callers : CallStart(c, from)
    \/ \E d \in DigitInputs, s \in SpeechInputs :
           MainGather(c, d, s) \/ Gather(c, d, s) \/ MusicLogic(c, d, s)
    \/ MusicMode(c)
    \/ Poll(c)

(* C21: no handler of a telephony event starts while the handler of an    *)
(* earlier event is still suspended, and the handler of a search answers  *)
(* in the step that spawns the job, without waiting for it.               *)
C21_HandlersRunToCompletion ==
    [][/\ \A c \in CallSids : EventOf(c) => aiReqs = {}
       /\ \A c \in CallSids, d \in DigitInputs, s \in SpeechInputs :
             (MusicLogic(c, d, s) /\ children' # children) =>
                 /\ resp'[c] = SayRedirect(SEARCHING, WaitRoute(variant))
                 /\ children \subseteq children']_vars

(* C22: the close handler of a job whose call identifier has no session   *)
(* any more (it was discarded by a call start) leaves the job table as it *)
(* was.                                                                   *)
C22_StaleCompletionIgnored ==
    [][\A j \in children, code \in ExitCodes, file \in Files :
          (Close(j, code, file) /\ sessions[j.callSid] = NoSession) =>
              downloadQueue' = downloadQueue]_vars

Waiting(c) == CanRedirect(c, WaitRoute(variant))

(* C23: with the clock advancing and the poll re-delivered, a call that   *)
(* is at the wait route with the whole budget ahead of it eventually is   *)
(* no longer at the wait route, whether or not its job ever exits.        *)
C23_WaitingEnds ==
    \A c \in CallSids :
        (Waiting(c) /\ now + WaitBudget < MaxNow) ~> ~Waiting(c)

(* The document announces the outcome of a job: it plays a track or says *)
(* that the download failed                                              *)
Announces(d) == IsDoc(d) /\ (d.play # NoUrl \/ d.say \in FailureSays)

C25_CallsIsolated ==
    [][\A a \in CallSids :
          (\/ EventOf(a)
           \/ \E j \in children, code \in ExitCodes, file \in Files :
                  j.callSid = a /\ Close(j, code, file)) =>
              \A b \in CallSids \ {a} :
                  /\ sessions'[b] = sessions[b]
                  /\ downloadQueue'[b] = downloadQueue[b]
                  /\ resp'[b] = resp[b]]_vars

C25_Witness ==
    /\ sessions["CA1"] # NoSession
    /\ sessions["CA2"] # NoSession
    /\ Len(sessions["CA1"].musicHistory) = 1
    /\ IsPending("CA2")
    /\ resp["CA1"] # resp["CA2"]

IsPrefix(p, h) == Len(p) <= Len(h) /\ SubSeq(h, 1, Len(p)) = p

(* C26: in every step other than an accepted call start of the call, the *)
(* play history before the step is a prefix of the play history after it. *)
C26_HistoryAppendOnly ==
    [][\A c \in CallSids :
          \/ \E from \in VERIFIED_CALLERS : CallStart(c, from)
          \/ IsPrefix(History(sessions, c), History(sessions', c))]_vars

C26_Witness ==
    \E c \in CallSids :
        /\ sessions[c] # NoSession
        /\ Len(sessions[c].musicHistory) = 2
        /\ sessions[c].musicHistory[1].url = MusicUrl(1)
        /\ sessions[c].musicHistory[2].url = MusicUrl(2)
        /\ sessions[c].index = 1

Alternates(h) ==
    /\ Len(h) % 2 = 0
    /\ \A i \in DOMAIN h : h[i].role = IF i % 2 = 1 THEN "user" ELSE "model"

(* C27: in every step other than an accepted call start of the call, the  *)
(* transcript stays as it was or grows at its end by one user turn        *)
(* followed by one model turn; its length is even and its roles alternate *)
(* user, model, also while two requests of the same session are awaiting  *)
(* the AI backend.                                                        *)
C27_TranscriptGrowsByPairs ==
    [][\A c \in CallSids :
          /\ Alternates(Transcript(sessions', c))
          /\ \/ \E from \in VERIFIED_CALLERS : CallStart(c, from)
             \/ Transcript(sessions', c) = Transcript(sessions, c)
             \/ /\ Len(Transcript(sessions', c)) = Len(Transcript(sessions, c)) + 2
                /\ IsPrefix(Transcript(sessions, c), Transcript(sessions', c))]_vars

C27_Witness ==
    \E c \in CallSids :
        /\ resp[c] = SayGather("hi", ChatRoute(variant))
        /\ sessions[c] # NoSession
        /\ Len(sessions[c].chatHistory) = 2
        /\ \E q \in aiReqs : q.callSid = c /\ ~q.orphan

(* C28: a chat event with digit # is answered by the redirect to the    *)
(* music menu, whatever speech it carries; no request goes to the AI    *)
(* backend and the transcript is what it was.                           *)
C28_HashEntersMusic ==
    [][\A c \in CallSids, s \in ChatSpeech :
          Forward(c, "#", s) =>
              /\ resp'[c] = RedirectOnly("/music-mode")
              /\ aiReqs' = aiReqs
              /\ Transcript(sessions', c) = Transcript(sessions, c)]_vars

C28_Witness ==
    \E c \in CallSids :
        /\ resp[c] = RedirectOnly("/music-mode")
        /\ sessions[c] # NoSession
        /\ Len(sessions[c].chatHistory) = 2

(* C29: a poll of the wait route for a call identifier without an entry  *)
(* is answered by a document that redirects to the music menu, with no   *)
(* pause and nothing played; the job table, the processes, the job       *)
(* counter and the sessions are left as they were.                       *)
C29_PollWithoutEntry ==
    [][\A c \in CallSids :
          (PollHandler(c) /\ ~HasJob(c)) =>
              /\ IsDoc(resp'[c])
              /\ resp'[c].redirect = "/music-mode"
              /\ resp'[c].pause = 0
              /\ resp'[c].play = NoUrl
              /\ resp'[c].gather = ""
              /\ downloadQueue' = downloadQueue
              /\ children' = children
              /\ nextId' = nextId
              /\ sessions' = sessions]_vars

C29_Witness ==
    \E c \in CallSids :
        /\ variant = "B"
        /\ resp[c] = SayRedirect(ERROR_SAY, "/music-mode")
        /\ ~HasJob(c)

(* C30: a music-menu event with no speech and a digit that is none of 0, *)
(* 4, 5, 6 (or no digit) is answered by the re-prompt and the redirect   *)
(* to the music menu; no job is started and the play history,            *)
(* the cursor and the job table are what they were.                      *)
C30_UnrecognisedMusicInput ==
    [][\A c \in CallSids, d \in DigitInputs \ ({"0"} \cup NavDigits) :
          MusicLogic(c, d, None) =>
              /\ resp'[c] = SayRedirect(NOT_CAUGHT, "/music-mode")
              /\ downloadQueue' = downloadQueue
              /\ children' = children
              /\ nextId' = nextId
              /\ History(sessions', c) = History(sessions, c)
              /\ Cursor(sessions', c) = Cursor(sessions, c)]_vars

C30_Witness ==
    \E c \in CallSids :
        /\ resp[c] = SayRedirect(NOT_CAUGHT, "/music-mode")
        /\ sessions[c] # NoSession
        /\ Len(sessions[c].musicHistory) = 1
        /\ sessions[c].index = 0

(* The digit that has the current track played again *)
ResumeDigit == "5"

(* C31: when only one track was ever downloaded and the clock has advanced *)
(* only while it was played, a resume of that track plays a slice that     *)
(* starts at the time played so far (the sum of the played durations), in  *)
(* seconds.                                                                *)
C31_ResumeOffsetIsPlayedTime ==
    [][\A c \in CallSids :
          (/\ nextId = 2
           /\ Len(History(sessions, c)) = 1
           /\ MusicLogic(c, ResumeDigit, None)) =>
              /\ IsDoc(resp'[c])
              /\ resp'[c].play # NoUrl
              /\ SliceOffset(resp'[c].play) * 1000 = now]_vars

(* C32: a resume digit, pressed when the call has a current track, is      *)
(* answered by playing a URL that is none of the original URLs of the play *)
(* history (a re-sliced file).                                             *)
C32_ResumePlaysNewUrl ==
    [][\A c \in CallSids :
          (/\ ~NoHistory(History(sessions, c))
           /\ MusicLogic(c, ResumeDigit, None)) =>
              /\ IsDoc(resp'[c])
              /\ resp'[c].play # NoUrl
              /\ \A i \in DOMAIN History(sessions, c) :
                     resp'[c].play # History(sessions, c)[i].url]_vars

(* C33: the play history of a call never has more entries than jobs have *)
(* run to their end, and no job's result is in it twice.                 *)
C33_OneEntryPerJob ==
    \A c \in CallSids :
        LET h == History(sessions, c) IN
        /\ Len(h) <= (nextId - 1) - Cardinality(children)
        /\ \A i, j \in DOMAIN h : i # j => h[i].url # h[j].url

(* C34: a reset digit at the music route is answered by the redirect to   *)
(* the call-start route and changes neither the play history nor the job  *)
(* table; the call start that follows this redirect for an allow-listed   *)
(* caller leaves a session with an empty transcript, an empty play        *)
(* history and the initial cursor, and the welcome document.              *)
C34_MusicResetStartsAfresh ==
    [][\A c \in CallSids :
          /\ \A s \in SpeechInputs :
                MusicLogic(c, "0", s) =>
                    /\ resp'[c] = RedirectOnly("/twiml")
                    /\ History(sessions', c) = History(sessions, c)
                    /\ downloadQueue' = downloadQueue
                    /\ children' = children
          /\ \A from \in VERIFIED_CALLERS :
                (resp[c] = RedirectOnly("/twiml") /\ CallStart(c, from)) =>
                    /\ Fresh(sessions', c)
                    /\ resp'[c] = SayGather(WELCOME, ChatRoute(variant))]_vars

C34_Witness ==
    \E c \in CallSids :
        /\ resp[c] = SayGather(WELCOME, ChatRoute(variant))
        /\ Fresh(sessions, c)
        /\ HasJob(c)
        /\ downloadQueue[c].status = "done"
        /\ children = {}

(* C35: when a previous, replay or next digit is answered by playing a URL *)
(* of the play history, the file behind that URL is still on disk.         *)
C35_HistoryFilesRetained ==
    [][\A c \in CallSids, d \in NavDigits :
          (MusicLogic(c, d, None) /\ IsDoc(resp'[c]) /\ resp'[c].play # NoUrl) =>
              ~FileMissing]_vars

(* C36: a chat event with a digit other than 0 and # and with no utterance *)
(* starts no request to the AI backend and leaves the transcript as it     *)
(* was; no request to the AI backend is ever without an utterance.         *)
C36_DigitAloneNotForwarded ==
    [][/\ \A c \in CallSids, d \in ChatDigits \ {None} :
             Forward(c, d, None) =>
                 /\ aiReqs' = aiReqs
                 /\ Transcript(sessions', c) = Transcript(sessions, c)
       /\ \A q \in aiReqs' : q.text # None]_vars

(* C37: when no call start was ever accepted, no call identifier has a *)
(* session, a job-table entry or a download process.                   *)
C37_NothingWithoutAcceptedStart ==
    /\ children = {}
    /\ \A c \in CallSids : sessions[c] = NoSession /\ downloadQueue[c] = NoJob

(* C38: a chat turn that ends with the apology, because the last key    *)
(* failed or because no key is configured, leaves the transcript of the *)
(* session as it was before the turn; a failed key that is followed by  *)
(* another key leaves it as it was, too.                                *)
C38_FailedTurnNotRecorded ==
    [][/\ \A q \in aiReqs :
             AiThrow(q) => Transcript(sessions', q.callSid) = Transcript(sessions, q.callSid)
       /\ \A c \in CallSids, d \in DigitInputs, s \in ChatSpeech :
             (numKeys = 0 /\ Forward(c, d, s)) =>
                 Transcript(sessions', c) = Transcript(sessions, c)]_vars

C38_Witness ==
    \E c \in CallSids :
        /\ numKeys = 2
        /\ aiReqs = {}
        /\ resp[c] = SayGather(BRAIN_OFFLINE, ChatRoute(variant))
        /\ sessions[c] # NoSession
        /\ Len(sessions[c].chatHistory) = 2

(* C39: a poll that finds the entry of its call done plays the entry's *)
(* track, whatever the clock shows.                                    *)
C39_DonePlayedWhateverTheTime ==
    [][\A c \in CallSids :
          (Poll(c) /\ HasJob(c) /\ downloadQueue[c].status = "done") =>
              /\ resp'[c] = PlayDoc(downloadQueue[c].title, downloadQueue[c].url,
                                    LogicRoute(variant))
              /\ History(sessions', c) =
                     Append(History(sessions, c),
                            [title |-> downloadQueue[c].title,
                             url |-> downloadQueue[c].url])]_vars

C39_Witness ==
    \E c \in CallSids :
        /\ now > WaitBudget
        /\ nextId = 2
        /\ IsPlaying(c)
        /\ resp[c].play = MusicUrl(1)
====
